---- MODULE Spec2Model ----
(***************************************************************************)
(* Word-search puzzle: the two grid generators (generatePuzzle of          *)
(* lib/puzzle-generator.ts and the constructor of WordSearchGame in        *)
(* GameLogic.ts), the selection matcher WordSearchGame.checkSelection, and *)
(* the GameScreen component with its PuzzleGrid, and the Grid component    *)
(* (both versions of it) that drives a WordSearchGame by gestures.         *)
(*                                                                         *)
(* A word is a sequence of one-character strings.  A cell is <<row, col>>. *)
(* The grid is a function from the in-range cells to a letter or "".       *)
(***************************************************************************)
EXTENDS Integers, Sequences, FiniteSets, TLC

VARIABLES
  impl,           \* "lib": generatePuzzle; "game": WordSearchGame
  size,           \* the grid size passed by the caller
  words,          \* the word array passed by the caller
  sortedWords,    \* generatePuzzle: the sorted copy of words
  thisWords,      \* WordSearchGame.words
  grid,           \* the grid under construction, then the built grid
  placedWords,    \* generatePuzzle: placedWords
  wordPositions,  \* WordSearchGame.wordPositions
  foundWords,     \* WordSearchGame.foundWords
  i,              \* index of the word being placed (0-based)
  attempts,       \* attempts counter of the word being placed
  pc,             \* "place", "fill", "done", or "threw" (constructor raised)
  op,             \* the operation that produced this state
  selectedCells,  \* the caller's selection: being built, then passed
  lastRet,        \* what the last checkSelection call returned
  prevFound,      \* foundWords before the last public operation
  puzzle,             \* GameScreen: the puzzle state
  screenFoundWords,   \* GameScreen: the foundWords state (an array)
  foundWordPositions, \* GameScreen: the foundWordPositions state
  panResponder,       \* PuzzleGrid: what its handlers closed over
  dialog,             \* GameScreen: the all-words-found dialog is scheduled
  isSelecting,        \* Grid: isSelectingRef.current
  timers,             \* Grid: scheduled setSelectedCells([]) not yet run
  touch,              \* the cell under the last grant or move event
  selectionLine       \* PuzzleGrid: the selectionLine state

vars == <<impl, size, words, sortedWords, thisWords, grid, placedWords,
          wordPositions, foundWords, i, attempts, pc, op, selectedCells,
          lastRet, prevFound, puzzle, screenFoundWords, foundWordPositions,
          panResponder, dialog, isSelecting, timers, touch, selectionLine>>

----------------------------------------------------------------------------
(* Bounds of the model *)

(* Grid sizes of the generation runs: 1..MaxSize. *)
MaxSize == 2

(* Grid sizes of the runs that place one word on an empty grid:
   1..MaxWalkSize. *)
MaxWalkSize == 4

(* Most clearing timers of the Grid pending at once. *)
MaxTimers == 1

(* Longest selection a caller passes to checkSelection. *)
MaxSel == 3

(* The words a caller may pass, in the caller's case. *)
WordPool == { <<"a", "b">>, <<"B", "A">>, <<"A">>, <<"a", "b", "c">> }

(* The word lists of the generation runs: one or two words of the pool. *)
WordLists == {<<w>> : w \in WordPool} \cup (WordPool \X WordPool)

(* One word on an empty grid, for generatePuzzle's sampler and walk. *)
WalkInputs ==
  [impl : {"lib"}, size : 1..MaxWalkSize, words : {<<w>> : w \in WordPool}]

(* The games whose public operations are explored: the constructor's
   arguments. *)
GameInputs ==
  { [impl |-> "game", size |-> 2, words |-> << <<"a", "b">>, <<"B", "A">> >>],
    [impl |-> "game", size |-> 1, words |-> << <<"A">> >>],
    [impl |-> "game", size |-> 1, words |-> << <<"A">>, <<"a", "b">> >>] }

(* The themes whose GameScreen is explored: theme.words, and the grid size
   in the place of the 12 that GameScreen passes to generatePuzzle. *)
ScreenInputs ==
  { [impl |-> "lib", size |-> 2, words |-> << <<"a", "z">> >>] }

(* A theme with a word that fits no line of the grid. *)
FirstPuzzleInputs ==
  ScreenInputs \cup
    { [impl |-> "lib", size |-> 2,
       words |-> << <<"a", "z">>, <<"a", "b", "c">> >>] }

(* The lines on which the games under the Grid have their word:
   direction and start cell. *)
GridPlacements ==
  { <<"horizontal", <<1, 0>> >>, <<"vertical", <<0, 2>> >>,
    <<"diagonal-forward", <<0, 0>> >>, <<"diagonal-backward", <<0, 2>> >> }

(* The letters the filler pass may draw (a subset of A-Z). *)
FillLetters == {"A", "Z"}

----------------------------------------------------------------------------
(* Program constants *)

maxAttempts == 100

letters == {"A", "B", "C", "D", "E", "F", "G", "H", "I", "J", "K", "L", "M",
            "N", "O", "P", "Q", "R", "S", "T", "U", "V", "W", "X", "Y", "Z"}

COLORS == <<"#3B82F6", "#8B5CF6", "#EC4899", "#F59E0B", "#10B981", "#EF4444">>

directions == {"horizontal", "horizontal-reverse", "vertical",
               "vertical-reverse", "diagonal-forward",
               "diagonal-forward-reverse", "diagonal-backward",
               "diagonal-backward-reverse"}

gameDirections == {"horizontal", "vertical", "diagonal-forward",
                   "diagonal-backward"}

----------------------------------------------------------------------------
(* Strings *)

toUpperCaseChar(ch) ==
  CASE ch = "a" -> "A"
    [] ch = "b" -> "B"
    [] ch = "c" -> "C"
    [] ch = "z" -> "Z"
    [] OTHER -> ch

toUpperCase(w) == [k \in 1..Len(w) |-> toUpperCaseChar(w[k])]

reverse(w) == [k \in 1..Len(w) |-> w[Len(w) + 1 - k]]

(* A sort that leaves the list as it is. *)
SortNot(ws) == ws

(* [...words].sort((a, b) => b.length - a.length): a stable sort, longest
   first.  InsertByLength puts w behind every entry at least as long. *)
InsertByLength(sorted, w) ==
  LET keep == Cardinality({k \in 1..Len(sorted) : Len(sorted[k]) >= Len(w)})
  IN  SubSeq(sorted, 1, keep) \o <<w>> \o SubSeq(sorted, keep + 1, Len(sorted))

RECURSIVE SortByLength(_)
SortByLength(ws) ==
  IF ws = <<>> THEN <<>>
  ELSE InsertByLength(SortByLength(SubSeq(ws, 1, Len(ws) - 1)), ws[Len(ws)])

----------------------------------------------------------------------------
(* Grid *)

Cells(n) == (0..(n - 1)) \X (0..(n - 1))

InBounds(cell, n) ==
  /\ cell[1] >= 0 /\ cell[1] < n
  /\ cell[2] >= 0 /\ cell[2] < n

EmptyGrid(n) == [cell \in Cells(n) |-> ""]

(* Math.floor(Math.random() * n): 0..n-1 for positive n; for n <= 0 the
   product lies in (n, 0], so the floor is one of n..0. *)
RandomIndex(n) == IF n > 0 THEN 0..(n - 1) ELSE n..0

(* Writing the first letter only. *)
WriteLettersFirstOnly(g, cells, w) ==
  [cell \in DOMAIN g |-> IF cells[1] = cell THEN w[1] ELSE g[cell]]

(* Writing w[k] into cells[k] for k = 1..Len(w), in this order. *)
WriteLetters(g, cells, w) ==
  [cell \in DOMAIN g |->
     LET hits == {k \in 1..Len(cells) : cells[k] = cell}
     IN  IF hits = {} THEN g[cell]
         ELSE w[CHOOSE k \in hits : \A m \in hits : m <= k]]

EmptyCells(g) == {cell \in DOMAIN g : g[cell] = ""}

----------------------------------------------------------------------------
(* generatePuzzle (lib/puzzle-generator.ts) *)

(* A sampler that draws row and column from the whole grid. *)
LibStartCellsAnywhere(direction, len, n) == RandomIndex(n) \X RandomIndex(n)

(* The start cells the sampler can draw for a direction and a word length. *)
LibStartCells(direction, len, n) ==
  LET range == n - len + 1
  IN  CASE direction \in {"horizontal", "horizontal-reverse"} ->
             RandomIndex(n) \X RandomIndex(range)
        [] direction \in {"vertical", "vertical-reverse"} ->
             RandomIndex(range) \X RandomIndex(n)
        [] direction \in {"diagonal-forward", "diagonal-forward-reverse"} ->
             RandomIndex(range) \X RandomIndex(range)
        [] OTHER ->
             RandomIndex(range) \X {len - 1 + x : x \in RandomIndex(range)}

(* The cell of letter j (0-based) of the walk. *)
LibStepCell(direction, startRow, startCol, len, j) ==
  CASE direction = "horizontal" -> <<startRow, startCol + j>>
    [] direction = "horizontal-reverse" -> <<startRow, startCol + len - 1 - j>>
    [] direction = "vertical" -> <<startRow + j, startCol>>
    [] direction = "vertical-reverse" -> <<startRow + len - 1 - j, startCol>>
    [] direction = "diagonal-forward" -> <<startRow + j, startCol + j>>
    [] direction = "diagonal-forward-reverse" ->
         <<startRow + len - 1 - j, startCol + len - 1 - j>>
    [] direction = "diagonal-backward" -> <<startRow + j, startCol - j>>
    [] OTHER -> <<startRow + len - 1 - j, startCol - (len - 1 - j)>>

LibWalk(direction, startRow, startCol, len) ==
  [k \in 1..len |-> LibStepCell(direction, startRow, startCol, len, k - 1)]

(* A step check without the letter comparison. *)
LibStepOkBoundsOnly(g, n, cell, ch) == InBounds(cell, n)

(* A step check that lets the walk leave the grid. *)
LibStepOkNoBounds(g, n, cell, ch) ==
  InBounds(cell, n) => (g[cell] = "" \/ g[cell] = ch)

(* A step passes when it is in bounds and its cell is empty or holds the
   same letter. *)
LibStepOk(g, n, cell, ch) ==
  /\ InBounds(cell, n)
  /\ (g[cell] = "" \/ g[cell] = ch)

LibCanPlace(g, n, cells, w) ==
  \A k \in 1..Len(w) : LibStepOk(g, n, cells[k], w[k])

LibColor(idx) == COLORS[(idx % Len(COLORS)) + 1]

(* A for loop that takes the same word again. *)
NextWordAgain(next, count) ==
  /\ i' = next - 1
  /\ attempts' = 0
  /\ pc' = "place"

(* The end of the for loop: on to the next word, or to the filler pass. *)
NextWord(next, count) ==
  /\ i' = next
  /\ attempts' = 0
  /\ pc' = IF next < count THEN "place" ELSE "fill"

(* Generation leaves the state of the GameScreen alone. *)
ScreenFrame ==
  UNCHANGED <<puzzle, screenFoundWords, foundWordPositions, panResponder,
              dialog, isSelecting, timers, touch, selectionLine>>

(* One iteration of the while loop of generatePuzzle. *)
LibAttempt ==
  /\ impl = "lib"
  /\ pc = "place"
  /\ i < Len(sortedWords)
  /\ attempts < maxAttempts
  /\ LET word == toUpperCase(sortedWords[i + 1])
     IN  \E direction \in directions :
           \E start \in LibStartCells(direction, Len(word), size) :
             LET positions == LibWalk(direction, start[1], start[2], Len(word))
             IN  IF LibCanPlace(grid, size, positions, word)
                 THEN /\ grid' = WriteLetters(grid, positions, word)
                      /\ placedWords' = Append(placedWords,
                            [word |-> word, positions |-> positions,
                             color |-> LibColor(i)])
                      /\ NextWord(i + 1, Len(sortedWords))
                 ELSE /\ UNCHANGED <<grid, placedWords>>
                      /\ IF attempts + 1 < maxAttempts
                         THEN /\ attempts' = attempts + 1
                              /\ UNCHANGED <<i, pc>>
                         ELSE NextWord(i + 1, Len(sortedWords))
  /\ op' = "attempt"
  /\ UNCHANGED <<impl, size, words, sortedWords, thisWords, wordPositions,
                 foundWords, selectedCells, lastRet, prevFound>>
  /\ ScreenFrame

(* A filler pass that stops one row short. *)
LibFillGridShort(g, fill) ==
  [cell \in DOMAIN g |->
     IF g[cell] = "" /\ \E other \in DOMAIN g : other[1] > cell[1]
     THEN fill[cell] ELSE g[cell]]

(* The filler pass of generatePuzzle: fill[cell] is the letter drawn for an
   empty cell. *)
LibFillGrid(g, fill) ==
  [cell \in DOMAIN g |-> IF g[cell] = "" THEN fill[cell] ELSE g[cell]]

LibFill ==
  /\ impl = "lib"
  /\ pc = "fill"
  /\ \E fill \in [EmptyCells(grid) -> FillLetters] :
       grid' = LibFillGrid(grid, fill)
  /\ pc' = "done"
  /\ op' = "fill"
  /\ UNCHANGED <<impl, size, words, sortedWords, thisWords, placedWords,
                 wordPositions, foundWords, i, attempts, selectedCells, lastRet,
                 prevFound>>
  /\ ScreenFrame

----------------------------------------------------------------------------
(* WordSearchGame: construction (GameLogic.ts) *)

getRandomPosition(direction, wordLength, n) ==
  LET range == n - wordLength + 1
  IN  CASE direction = "horizontal" -> RandomIndex(n) \X RandomIndex(range)
        [] direction = "vertical" -> RandomIndex(range) \X RandomIndex(n)
        [] direction = "diagonal-forward" ->
             RandomIndex(range) \X RandomIndex(range)
        [] OTHER ->
             RandomIndex(range) \X
               {wordLength - 1 + x : x \in RandomIndex(range)}

(* getNextPosition never leaving the start cell of a horizontal line. *)
getNextPositionStuck(startRow, startCol, direction, offset) ==
  CASE direction = "horizontal" -> <<startRow, startCol>>
    [] direction = "vertical" -> <<startRow + offset, startCol>>
    [] direction = "diagonal-forward" -> <<startRow + offset, startCol + offset>>
    [] OTHER -> <<startRow + offset, startCol - offset>>

getNextPosition(startRow, startCol, direction, offset) ==
  CASE direction = "horizontal" -> <<startRow, startCol + offset>>
    [] direction = "vertical" -> <<startRow + offset, startCol>>
    [] direction = "diagonal-forward" -> <<startRow + offset, startCol + offset>>
    [] OTHER -> <<startRow + offset, startCol - offset>>

(* grid[r][c] in JavaScript: a TypeError when row r does not exist,
   undefined when only the column is out of range. *)
GridAt(g, n, cell) ==
  IF cell[1] < 0 \/ cell[1] >= n THEN "#TypeError"
  ELSE IF cell[2] < 0 \/ cell[2] >= n THEN "#undefined"
  ELSE g[cell]

(* canPlaceWord accepting every existing cell. *)
CanPlaceStepAnyLetter(g, n, cell, ch) ==
  LET existingLetter == GridAt(g, n, cell)
  IN  IF existingLetter = "#TypeError" THEN "throw"
      ELSE IF existingLetter = "#undefined" THEN "false"
      ELSE "ok"

(* One iteration of canPlaceWord's loop: "ok" to go on, "false" to return
   false, "throw" when grid[r] is undefined. *)
CanPlaceStep(g, n, cell, ch) ==
  LET existingLetter == GridAt(g, n, cell)
  IN  IF existingLetter = "#TypeError" THEN "throw"
      ELSE IF existingLetter # "" /\ existingLetter # ch THEN "false"
      ELSE "ok"

canPlaceWord(word, row, col, direction, g, n) ==
  LET out == [k \in 1..Len(word) |->
                CanPlaceStep(g, n, getNextPosition(row, col, direction, k - 1),
                             word[k])]
      bad == {k \in 1..Len(word) : out[k] # "ok"}
  IN  IF bad = {} THEN "true"
      ELSE out[CHOOSE k \in bad : \A m \in bad : k <= m]

(* insertWord: the cells written, in writing order. *)
insertWordPositions(word, row, col, direction) ==
  [k \in 1..Len(word) |-> getNextPosition(row, col, direction, k - 1)]

insertWord(word, row, col, direction, g) ==
  WriteLetters(g, insertWordPositions(word, row, col, direction), word)

(* One placement try of placeWord: `written` is the text tried (the word,
   or the reversed word in the fallback), `word` the word being placed;
   a failed try of the loop counts an attempt, a failed fallback gives the
   word up. *)
TryPlace(word, written, lastTry) ==
  \E direction \in gameDirections :
    \E start \in getRandomPosition(direction, Len(written), size) :
      LET can == canPlaceWord(written, start[1], start[2], direction, grid,
                              size)
      IN  CASE can = "throw" ->
                 /\ pc' = "threw"
                 /\ UNCHANGED <<grid, wordPositions, i, attempts>>
            [] can = "true" ->
                 /\ grid' = insertWord(written, start[1], start[2], direction,
                                       grid)
                 /\ wordPositions' = Append(wordPositions,
                      [word |-> word,
                       startRow |-> start[1], startCol |-> start[2],
                       direction |-> direction,
                       positions |-> insertWordPositions(written, start[1],
                                                         start[2], direction)])
                 /\ NextWord(i + 1, Len(thisWords))
            [] OTHER ->
                 /\ UNCHANGED <<grid, wordPositions>>
                 /\ IF lastTry
                      THEN NextWord(i + 1, Len(thisWords))
                      ELSE /\ attempts' = attempts + 1
                           /\ UNCHANGED <<i, pc>>

GameFrame ==
  UNCHANGED <<impl, size, words, sortedWords, thisWords, placedWords,
              foundWords, selectedCells, lastRet, prevFound, puzzle,
              screenFoundWords, foundWordPositions, panResponder, dialog,
              isSelecting, timers, touch, selectionLine>>

(* One iteration of the while loop of placeWord. *)
GameAttempt ==
  /\ impl = "game"
  /\ pc = "place"
  /\ i < Len(thisWords)
  /\ attempts < maxAttempts
  /\ TryPlace(thisWords[i + 1], thisWords[i + 1], FALSE)
  /\ op' = "attempt"
  /\ GameFrame

(* placeWord after the loop: one try with the word reversed. *)
GameFallback ==
  /\ impl = "game"
  /\ pc = "place"
  /\ i < Len(thisWords)
  /\ attempts = maxAttempts
  /\ TryPlace(thisWords[i + 1], reverse(thisWords[i + 1]), TRUE)
  /\ op' = "fallback"
  /\ GameFrame

fillRandomLetters(g, fill) ==
  [cell \in DOMAIN g |-> IF g[cell] = "" THEN fill[cell] ELSE g[cell]]

GameFill ==
  /\ impl = "game"
  /\ pc = "fill"
  /\ \E fill \in [EmptyCells(grid) -> FillLetters] :
       grid' = fillRandomLetters(grid, fill)
  /\ pc' = "done"
  /\ op' = "fill"
  /\ UNCHANGED <<i, attempts, wordPositions>>
  /\ GameFrame

----------------------------------------------------------------------------
(* WordSearchGame: the public operations *)

NoCall == <<"#nocall">>

Null == <<"#null">>

Threw == <<"#TypeError">>

Digits == <<"0", "1", "2", "3", "4", "5", "6", "7", "8", "9">>

RECURSIVE Decimal(_)
Decimal(n) ==
  IF n < 10 THEN <<Digits[n + 1]>>
  ELSE Decimal(n \div 10) \o <<Digits[(n % 10) + 1]>>

NumberToString(n) == IF n < 0 THEN <<"-">> \o Decimal(0 - n) ELSE Decimal(n)

(* `${cell.row}-${cell.col}` *)
PositionKey(cell) == NumberToString(cell[1]) \o <<"-">> \o NumberToString(cell[2])

KeySet(cells) == {PositionKey(cells[k]) : k \in 1..Len(cells)}

(* isWordFound answering true for every word. *)
isWordFoundAlways(found, word) == TRUE

(* isWordFound answering false for every word. *)
isWordFoundNever(found, word) == FALSE

isWordFound(found, word) == toUpperCase(word) \in found

(* markWordAsFound replacing the set instead of adding to it. *)
markWordAsFoundOnly(found, word) == {toUpperCase(word)}

markWordAsFound(found, word) == found \cup {toUpperCase(word)}

(* cells.map(({row, col}) => this.grid[row][col]).join(''): undefined joins
   as the empty string; a missing row raises. *)
JoinLetters(g, n, cells) ==
  LET read == [k \in 1..Len(cells) |-> GridAt(g, n, cells[k])]
      kept == SelectSeq(read, LAMBDA x : x # "#undefined")
  IN  IF \E k \in 1..Len(cells) : read[k] = "#TypeError" THEN Threw
      ELSE kept

(* The size test alone. *)
PositionsMatchSizeOnly(wordPos, cells) ==
  Cardinality(KeySet(wordPos.positions)) = Cardinality(KeySet(cells))

(* The loop over wordPosSet alone. *)
PositionsMatchNoSizeTest(wordPos, cells) ==
  \A key \in KeySet(wordPos.positions) : key \in KeySet(cells)

(* The size test and the loop over wordPosSet of checkSelection. *)
PositionsMatch(wordPos, cells) ==
  LET selectedSet == KeySet(cells)
      wordPosSet == KeySet(wordPos.positions)
  IN  /\ Cardinality(wordPosSet) = Cardinality(selectedSet)
      /\ \A key \in wordPosSet : key \in selectedSet

(* The first comparison alone. *)
LettersMatchForwardOnly(selectedWord, wordLetters, word) ==
  selectedWord = wordLetters

(* No comparison of letters at all. *)
LettersMatchAlways(selectedWord, wordLetters, word) == TRUE

(* The six comparisons of checkSelection. *)
LettersMatch(selectedWord, wordLetters, word) ==
  LET reversedWordLetters == reverse(wordLetters)
      reversedSelectedWord == reverse(selectedWord)
  IN  \/ selectedWord = wordLetters
      \/ selectedWord = reversedWordLetters
      \/ reversedSelectedWord = wordLetters
      \/ reversedSelectedWord = reversedWordLetters
      \/ selectedWord = word
      \/ reversedSelectedWord = word

(* The loop of checkSelection from entry k of wordPositions on: the value
   returned. *)
RECURSIVE ScanWordPositions(_, _, _, _, _, _)
ScanWordPositions(k, cells, wps, g, n, found) ==
  IF k > Len(wps) THEN Null
  ELSE LET wordPos == wps[k]
           wordLetters == JoinLetters(g, n, wordPos.positions)
           selectedWord == JoinLetters(g, n, cells)
       IN  IF isWordFound(found, wordPos.word)
             THEN ScanWordPositions(k + 1, cells, wps, g, n, found)
           ELSE IF ~PositionsMatch(wordPos, cells)
             THEN ScanWordPositions(k + 1, cells, wps, g, n, found)
           ELSE IF wordLetters = Threw \/ selectedWord = Threw
             THEN Threw
           ELSE IF LettersMatch(selectedWord, wordLetters, wordPos.word)
             THEN wordPos.word
           ELSE ScanWordPositions(k + 1, cells, wps, g, n, found)

(* checkSelection without the length test. *)
checkSelectionResultNoLengthTest(cells, wps, g, n, found) ==
  ScanWordPositions(1, cells, wps, g, n, found)

(* The value checkSelection returns. *)
checkSelectionResult(cells, wps, g, n, found) ==
  IF Len(cells) < 2 THEN Null
  ELSE ScanWordPositions(1, cells, wps, g, n, found)

(* foundWords after checkSelection returned ret. *)
checkSelectionFound(ret, found) ==
  IF ret = Null \/ ret = Threw THEN found ELSE markWordAsFound(found, ret)

(* The cells a caller may pass: every cell of the grid, one cell above the
   grid and one to its right. *)
SelCells(n) == Cells(n) \cup {<<0 - 1, 0>>, <<0, n>>}

PublicFrame ==
  UNCHANGED <<impl, size, words, sortedWords, thisWords, grid, placedWords,
              wordPositions, i, attempts, pc, puzzle, screenFoundWords,
              foundWordPositions, panResponder, dialog, isSelecting, timers,
              touch, selectionLine>>

(* The caller puts one more cell into the array it is going to pass. *)
SelectCell ==
  /\ impl = "game"
  /\ pc = "done"
  /\ op = "select" => Len(selectedCells) < MaxSel
  /\ \E cell \in SelCells(size) :
       selectedCells' = IF op = "select" THEN Append(selectedCells, cell)
                        ELSE <<cell>>
  /\ op' = "select"
  /\ lastRet' = NoCall
  /\ prevFound' = foundWords
  /\ UNCHANGED foundWords
  /\ PublicFrame

(* checkSelection(selectedCells); without cells selected since the last
   operation the caller passes an empty array. *)
CheckSelectionCall ==
  /\ impl = "game"
  /\ pc = "done"
  /\ LET arg == IF op = "select" THEN selectedCells ELSE <<>>
         ret == checkSelectionResult(arg, wordPositions, grid, size,
                                     foundWords)
     IN  /\ selectedCells' = arg
         /\ lastRet' = ret
         /\ foundWords' = checkSelectionFound(ret, foundWords)
  /\ prevFound' = foundWords
  /\ op' = "checkSelection"
  /\ PublicFrame

(* markWordAsFound called from outside with one of the caller's words. *)
MarkWordAsFoundCall ==
  /\ impl = "game"
  /\ pc = "done"
  /\ \E k \in 1..Len(words) :
       foundWords' = markWordAsFound(foundWords, words[k])
  /\ prevFound' = foundWords
  /\ selectedCells' = <<>>
  /\ lastRet' = NoCall
  /\ op' = "markWordAsFound"
  /\ PublicFrame

----------------------------------------------------------------------------
(* GameScreen (screens/GameScreen.tsx) and the release handler of its
   PuzzleGrid.  theme.words is `words`; every regeneration calls
   generatePuzzle(theme.words, size) and then sets the three states in the
   same handler. *)

(* useState(null): no puzzle yet. *)
NoPuzzle == [grid |-> EmptyGrid(0), placedWords |-> <<>>]

Includes(arr, x) == \E k \in 1..Len(arr) : arr[k] = x

(* The call generatePuzzle(theme.words, size) of a regenerating handler:
   generation starts over on an empty grid. *)
GeneratePuzzleCall ==
  /\ grid' = EmptyGrid(size)
  /\ placedWords' = <<>>
  /\ i' = 0
  /\ attempts' = 0
  /\ pc' = IF Len(sortedWords) > 0 THEN "place" ELSE "fill"

ScreenHandlerFrame ==
  UNCHANGED <<impl, size, words, sortedWords, thisWords, wordPositions,
              foundWords, lastRet, prevFound, isSelecting, timers, touch,
              selectionLine>>

(* The end of every regenerating handler (mount effect, handleReset, the
   dialog's New Game): setPuzzle, setFoundWords([]) and
   setFoundWordPositions(new Set()).  The PuzzleGrid is first rendered with
   the first puzzle, and its handlers, created once and kept in a ref, keep
   what they closed over in that render: the grid, and the handleWordSelect
   of that render with its puzzle and its foundWords. *)
SetPuzzle ==
  /\ impl = "lib"
  /\ pc = "done"
  /\ puzzle' = [grid |-> grid, placedWords |-> placedWords]
  /\ screenFoundWords' = <<>>
  /\ foundWordPositions' = {}
  /\ panResponder' = IF panResponder = NoPuzzle THEN puzzle' ELSE panResponder
  /\ pc' = "shown"
  /\ op' = "setPuzzle"
  /\ UNCHANGED <<grid, placedWords, i, attempts, selectedCells, dialog>>
  /\ ScreenHandlerFrame

handleReset ==
  /\ impl = "lib"
  /\ pc = "shown"
  /\ GeneratePuzzleCall
  /\ op' = "handleReset"
  /\ selectedCells' = <<>>
  /\ UNCHANGED <<puzzle, screenFoundWords, foundWordPositions, panResponder,
                 dialog>>
  /\ ScreenHandlerFrame

(* onPress of the dialog's New Game button. *)
NewGame ==
  /\ impl = "lib"
  /\ pc = "shown"
  /\ dialog
  /\ GeneratePuzzleCall
  /\ dialog' = FALSE
  /\ op' = "newGame"
  /\ selectedCells' = <<>>
  /\ UNCHANGED <<puzzle, screenFoundWords, foundWordPositions, panResponder>>
  /\ ScreenHandlerFrame

(* The word string the release handler builds from the selected cells. *)
ReleaseWord(g, cells) ==
  LET read == [k \in 1..Len(cells) |->
                 IF cells[k] \in DOMAIN g THEN g[cells[k]] ELSE ""]
  IN  SelectSeq(read, LAMBDA x : x # "")

(* handleWordSelect: upperWord, then reversedWord unless it is the same. *)
wordsToCheck(selectedWord) ==
  LET upperWord == toUpperCase(selectedWord)
      reversedWord == reverse(upperWord)
  IN  IF reversedWord # upperWord THEN <<upperWord, reversedWord>>
      ELSE <<upperWord>>

(* One iteration of handleWordSelect's loop accepts wordToCheck: not in the
   foundWords of the closure, in the theme, and the word of a placed word
   of the closure's puzzle. *)
Accepts(wordToCheck, closure, themeWords, closureFound) ==
  /\ ~Includes(closureFound, wordToCheck)
  /\ \E k \in 1..Len(themeWords) : toUpperCase(themeWords[k]) = wordToCheck
  /\ \E k \in 1..Len(closure.placedWords) :
       closure.placedWords[k].word = wordToCheck

(* puzzle.placedWords.find((pw) => pw.word === wordToCheck) *)
FindPlacedWord(placed, wordToCheck) ==
  placed[CHOOSE k \in 1..Len(placed) :
           /\ placed[k].word = wordToCheck
           /\ \A j \in 1..(k - 1) : placed[j].word # wordToCheck]

(* An updater that appends without looking. *)
setFoundWordsAppend(prev, wordToCheck) == Append(prev, wordToCheck)

(* The updater passed to setFoundWords. *)
setFoundWordsUpdater(prev, wordToCheck) ==
  IF Includes(prev, wordToCheck) THEN prev ELSE Append(prev, wordToCheck)

(* The updater passed to setFoundWordPositions. *)
setFoundWordPositionsUpdater(prev, placedWord) ==
  prev \cup KeySet(placedWord.positions)

(* handleWordSelect(selectedWord) of the render the PuzzleGrid's handlers
   closed over. *)
handleWordSelect(selectedWord, closure, closureFound) ==
  LET toCheck == wordsToCheck(selectedWord)
      hits == {k \in 1..Len(toCheck) :
                 Accepts(toCheck[k], closure, words, closureFound)}
  IN  IF hits = {}
      THEN UNCHANGED <<screenFoundWords, foundWordPositions, dialog>>
      ELSE LET wordToCheck == toCheck[CHOOSE k \in hits : \A m \in hits : k <= m]
               placedWord == FindPlacedWord(closure.placedWords, wordToCheck)
               newFound == setFoundWordsUpdater(screenFoundWords, wordToCheck)
           IN  /\ screenFoundWords' = newFound
               /\ foundWordPositions' =
                    setFoundWordPositionsUpdater(foundWordPositions, placedWord)
               /\ dialog' = (dialog \/ (newFound # screenFoundWords
                                         /\ Len(newFound) = Len(words)))

Abs(x) == IF x < 0 THEN 0 - x ELSE x

(* getCellsInLine of the PuzzleGrid: the cells from start to end when they
   lie on a common row, column or diagonal (the quotient under Math.round
   is then an integer), otherwise the start cell alone. *)
getCellsInLine(start, end, n) ==
  LET rowDiff == end[1] - start[1]
      colDiff == end[2] - start[2]
      absRowDiff == Abs(rowDiff)
      absColDiff == Abs(colDiff)
      steps == IF absRowDiff > absColDiff THEN absRowDiff ELSE absColDiff
      cells == [k \in 1..(steps + 1) |->
                  IF steps = 0 THEN start
                  ELSE <<start[1] + ((rowDiff * (k - 1)) \div steps),
                         start[2] + ((colDiff * (k - 1)) \div steps)>>]
  IN  IF absRowDiff > 0 /\ absColDiff > 0 /\ absRowDiff # absColDiff
      THEN <<start>>
      ELSE SelectSeq(cells, LAMBDA c : InBounds(c, n))

(* The cell arrays the handlers of the PuzzleGrid store in
   selectedCellsRef.current: [cell] at the grant, getCellsInLine(start,
   cell) at a move, for cells of the grid returned by getCellFromTouch. *)
ReleaseSelections(n) ==
  {getCellsInLine(start, end, n) : start \in Cells(n), end \in Cells(n)}

(* onPanResponderRelease of the PuzzleGrid, with selectedCellsRef.current
   holding cells. *)
PuzzleGridRelease ==
  /\ impl = "lib"
  /\ pc = "shown"
  /\ \E cells \in ReleaseSelections(size) :
       LET word == ReleaseWord(panResponder.grid, cells)
       IN  /\ selectedCells' = cells
           /\ IF Len(word) >= 2
              THEN handleWordSelect(word, panResponder, <<>>)
              ELSE UNCHANGED <<screenFoundWords, foundWordPositions, dialog>>
  /\ op' = "release"
  /\ UNCHANGED <<grid, placedWords, i, attempts, pc, puzzle, panResponder>>
  /\ ScreenHandlerFrame

----------------------------------------------------------------------------
(* Grid (unnamed/part_000, the two versions of the component): the gesture
   handlers over a WordSearchGame.  impl is "Grid" for the first version
   and "Grid2" for the second.  The selectedCells state and the ref that
   the effect copies it to after every render are one variable. *)

(* getCellFromTouch returned null: the touch is outside the grid. *)
NoTouch == <<>>

(* selectionLine is null. *)
NoLine == <<>>

Sign(x) == IF x > 0 THEN 1 ELSE IF x < 0 THEN 0 - 1 ELSE 0

(* The values, once sorted, go up by one from each to the next. *)
SortedConsecutive(vals) ==
  LET S == {vals[k] : k \in 1..Len(vals)}
  IN  /\ Cardinality(S) = Len(vals)
      /\ \A v \in S : (\A u \in S : v <= u) \/ (v - 1) \in S

Rows(cells) == [k \in 1..Len(cells) |-> cells[k][1]]

Cols(cells) == [k \in 1..Len(cells) |-> cells[k][2]]

(* isStraightLine of the first version; the diagonal tests run over
   differences whose first element is 0. *)
isStraightLine(cells) ==
  LET rowDiffs == [k \in 1..Len(cells) |->
                     IF k > 1 THEN cells[k][1] - cells[k - 1][1] ELSE 0]
      colDiffs == [k \in 1..Len(cells) |->
                     IF k > 1 THEN cells[k][2] - cells[k - 1][2] ELSE 0]
  IN  IF Len(cells) <= 2 THEN TRUE
      ELSE IF \A k \in 1..Len(cells) : cells[k][1] = cells[1][1]
        THEN SortedConsecutive(Cols(cells))
      ELSE IF \A k \in 1..Len(cells) : cells[k][2] = cells[1][2]
        THEN SortedConsecutive(Rows(cells))
      ELSE \/ /\ \A k \in 1..Len(cells) : rowDiffs[k] = 1
              /\ \A k \in 1..Len(cells) : colDiffs[k] = 1
           \/ /\ \A k \in 1..Len(cells) : rowDiffs[k] = 1
              /\ \A k \in 1..Len(cells) : colDiffs[k] = 0 - 1

(* isStraightLine of the second version. *)
isStraightLine2(cells, lenient) ==
  LET rowDiffs == [k \in 1..(Len(cells) - 1) |-> cells[k + 1][1] - cells[k][1]]
      colDiffs == [k \in 1..(Len(cells) - 1) |-> cells[k + 1][2] - cells[k][2]]
      rowSign == Sign(rowDiffs[1])
      colSign == Sign(colDiffs[1])
      isDiagonal == \A k \in 1..Len(rowDiffs) :
                      /\ Abs(rowDiffs[k]) = Abs(colDiffs[k])
                      /\ Abs(rowDiffs[k]) = 1
                      /\ Sign(rowDiffs[k]) = rowSign
                      /\ Sign(colDiffs[k]) = colSign
      isReverseDiagonal == \A k \in 1..Len(rowDiffs) :
                             /\ Abs(0 - rowDiffs[k]) = Abs(0 - colDiffs[k])
                             /\ Abs(0 - rowDiffs[k]) = 1
  IN  IF Len(cells) <= 2 THEN TRUE
      ELSE IF \A k \in 1..Len(cells) : cells[k][1] = cells[1][1]
        THEN SortedConsecutive(Cols(cells))
      ELSE IF \A k \in 1..Len(cells) : cells[k][2] = cells[1][2]
        THEN SortedConsecutive(Rows(cells))
      ELSE IF isDiagonal THEN TRUE
      ELSE Len(rowDiffs) >= 2 /\ isReverseDiagonal

(* rowDiff <= 1 && colDiff <= 1 && (rowDiff === 1 || colDiff === 1) *)
isAdjacent(cell, lastCell) ==
  LET rowDiff == Abs(cell[1] - lastCell[1])
      colDiff == Abs(cell[2] - lastCell[2])
  IN  rowDiff <= 1 /\ colDiff <= 1 /\ (rowDiff = 1 \/ colDiff = 1)

(* getNearbyCells: the main cell, then its neighbours inside the grid in
   the order of the offsets table. *)
getNearbyCells(mainCell, n) ==
  LET offsets == << <<0 - 1, 0 - 1>>, <<0 - 1, 0>>, <<0 - 1, 1>>,
                    <<0, 0 - 1>>, <<0, 1>>,
                    <<1, 0 - 1>>, <<1, 0>>, <<1, 1>> >>
      around == [k \in 1..8 |-> <<mainCell[1] + offsets[k][1],
                                  mainCell[2] + offsets[k][2]>>]
  IN  <<mainCell>> \o SelectSeq(around, LAMBDA c : InBounds(c, n))

(* fillMissingDiagonalCells: the longer selection, or <<>> for null. *)
fillMissingDiagonalCells(prev, newCell, n) ==
  IF Len(prev) < 2 THEN <<>>
  ELSE LET lastCell == prev[Len(prev)]
           secondLastCell == prev[Len(prev) - 1]
           lastRowDiff == lastCell[1] - secondLastCell[1]
           lastColDiff == lastCell[2] - secondLastCell[2]
           newRowDiff == newCell[1] - lastCell[1]
           newColDiff == newCell[2] - lastCell[2]
           missingCell == <<lastCell[1] + lastRowDiff,
                            lastCell[2] + lastColDiff>>
       IN  IF Abs(lastRowDiff) # 1 \/ Abs(lastColDiff) # 1 THEN <<>>
           ELSE IF /\ Abs(newRowDiff) = 2
                   /\ Abs(newColDiff) = 2
                   /\ Sign(newRowDiff) = Sign(lastRowDiff)
                   /\ Sign(newColDiff) = Sign(lastColDiff)
                   /\ InBounds(missingCell, n)
             THEN prev \o <<missingCell, newCell>>
           ELSE <<>>

(* The updater of onPanResponderMove, first version. *)
MoveUpdater(prev, cell) ==
  IF \E k \in 1..Len(prev) : prev[k] = cell THEN prev
  ELSE IF Len(prev) = 0 THEN <<cell>>
  ELSE IF isAdjacent(cell, prev[Len(prev)])
    THEN IF isStraightLine(Append(prev, cell)) THEN Append(prev, cell)
         ELSE IF Len(prev) = 1 THEN Append(prev, cell)
         ELSE prev
  ELSE prev

(* The first nearby cell, after the main cell, that is adjacent to the last
   cell and keeps the line straight; <<>> when there is none. *)
NearbyContinuation(prev, nearbyCells) ==
  LET lastCell == prev[Len(prev)]
      fits == {k \in 2..Len(nearbyCells) :
                 /\ isAdjacent(nearbyCells[k], lastCell)
                 /\ isStraightLine2(Append(prev, nearbyCells[k]), TRUE)}
  IN  IF fits = {} THEN <<>>
      ELSE Append(prev, nearbyCells[CHOOSE k \in fits : \A m \in fits : k <= m])

(* The updater of onPanResponderMove, second version. *)
MoveUpdater2(prev, cell, n) ==
  LET filledCells == fillMissingDiagonalCells(prev, cell, n)
      continued == NearbyContinuation(prev, getNearbyCells(cell, n))
  IN  IF \E k \in 1..Len(prev) : prev[k] = cell THEN prev
      ELSE IF Len(prev) = 0 THEN <<cell>>
      ELSE IF isAdjacent(cell, prev[Len(prev)])
        THEN IF Len(prev) = 1 THEN Append(prev, cell)
             ELSE IF isStraightLine2(Append(prev, cell), TRUE)
               THEN Append(prev, cell)
             ELSE IF Len(filledCells) > Len(prev) THEN filledCells
             ELSE prev
      ELSE IF continued # <<>> THEN continued
      ELSE IF Len(prev) >= 2 /\ Len(filledCells) > Len(prev) THEN filledCells
      ELSE prev

(* A gesture is in progress: the responder was granted and has neither
   been released nor terminated. *)
GestureActive == pc = "gesture"

(* What the handlers of the Grid leave alone. *)
GridFrame ==
  UNCHANGED <<impl, size, words, sortedWords, thisWords, grid, placedWords,
              wordPositions, i, attempts, puzzle, screenFoundWords,
              foundWordPositions, panResponder, dialog, selectionLine>>

(* The cell getCellFromTouch returns for a touch: a cell of the grid, or
   null. *)
Touches(n) == Cells(n) \cup {NoTouch}

GridGrant ==
  /\ impl \in {"Grid", "Grid2"}
  /\ ~GestureActive
  /\ \E cell \in Touches(size) :
       /\ touch' = cell
       /\ IF cell # NoTouch
          THEN isSelecting' = TRUE /\ selectedCells' = <<cell>>
          ELSE UNCHANGED <<isSelecting, selectedCells>>
  /\ op' = "grant"
  /\ pc' = "gesture"
  /\ UNCHANGED <<foundWords, prevFound, lastRet, timers>>
  /\ GridFrame

GridMove ==
  /\ impl \in {"Grid", "Grid2"}
  /\ GestureActive
  /\ \E cell \in Touches(size) :
       /\ touch' = cell
       /\ IF isSelecting /\ cell # NoTouch
          THEN LET next == IF impl = "Grid" THEN MoveUpdater(selectedCells, cell)
                           ELSE MoveUpdater2(selectedCells, cell, size)
               IN  /\ Len(next) <= MaxSel
                   /\ selectedCells' = next
          ELSE UNCHANGED selectedCells
  /\ op' = "move"
  /\ UNCHANGED <<pc, isSelecting, foundWords, prevFound, lastRet, timers>>
  /\ GridFrame

(* onPanResponderRelease: checkSelection on the ref's cells when there are
   two or more; an unmatched selection is cleared 300 ms later, a short one
   at once, a matched one stays. *)
GridRelease ==
  /\ impl \in {"Grid", "Grid2"}
  /\ GestureActive
  /\ isSelecting' = FALSE
  /\ prevFound' = foundWords
  /\ IF Len(selectedCells) >= 2
     THEN LET ret == checkSelectionResult(selectedCells, wordPositions, grid,
                                          size, foundWords)
          IN  /\ lastRet' = ret
              /\ foundWords' = checkSelectionFound(ret, foundWords)
              /\ IF ret = Null
                 THEN timers < MaxTimers /\ timers' = timers + 1
                 ELSE UNCHANGED timers
              /\ UNCHANGED selectedCells
     ELSE /\ selectedCells' = <<>>
          /\ lastRet' = NoCall
          /\ UNCHANGED <<foundWords, timers>>
  /\ op' = "release"
  /\ pc' = "done"
  /\ UNCHANGED touch
  /\ GridFrame

(* onPanResponderTerminate: the selection is cleared 100 ms later. *)
GridTerminate ==
  /\ impl \in {"Grid", "Grid2"}
  /\ GestureActive
  /\ isSelecting' = FALSE
  /\ timers < MaxTimers
  /\ timers' = timers + 1
  /\ op' = "terminate"
  /\ pc' = "done"
  /\ UNCHANGED <<selectedCells, foundWords, prevFound, lastRet, touch>>
  /\ GridFrame

(* A scheduled setSelectedCells([]) runs. *)
GridTimer ==
  /\ impl \in {"Grid", "Grid2"}
  /\ timers > 0
  /\ timers' = timers - 1
  /\ selectedCells' = <<>>
  /\ op' = "timer"
  /\ UNCHANGED <<pc, isSelecting, foundWords, prevFound, lastRet, touch>>
  /\ GridFrame

----------------------------------------------------------------------------
(* PuzzleGrid (unnamed/part_002): the gesture handlers.  They are made once,
   by useRef(PanResponder.create({...})).current in the first render, and
   every later event runs those same closures; selectedCells is
   selectedCellsRef.current. *)

(* selectionLine as the handlers see it: the constant of the first render,
   the initial value of the state. *)
FirstRenderSelectionLine == NoLine

(* What the gesture handlers of the PuzzleGrid leave alone. *)
PuzzleGridFrame ==
  UNCHANGED <<impl, size, words, sortedWords, thisWords, grid, placedWords,
              wordPositions, foundWords, i, attempts, prevFound, puzzle,
              panResponder, isSelecting, timers>>

onPanResponderGrant ==
  /\ impl = "lib"
  /\ pc = "shown"
  /\ \E cell \in Touches(size) :
       /\ touch' = cell
       /\ IF cell # NoTouch
          THEN /\ selectionLine' = <<cell, cell>>
               /\ selectedCells' = <<cell>>
          ELSE UNCHANGED <<selectionLine, selectedCells>>
  /\ pc' = "gesture"
  /\ op' = "grant"
  /\ UNCHANGED <<screenFoundWords, foundWordPositions, dialog, lastRet>>
  /\ PuzzleGridFrame

onPanResponderMove ==
  /\ impl = "lib"
  /\ pc = "gesture"
  /\ \E cell \in Touches(size) :
       /\ touch' = cell
       /\ IF FirstRenderSelectionLine = NoLine \/ cell = NoTouch
          THEN UNCHANGED <<selectionLine, selectedCells>>
          ELSE LET lineCells == getCellsInLine(FirstRenderSelectionLine[1],
                                               cell, size)
               IN  IF Len(lineCells) > 0
                   THEN /\ selectionLine' = <<FirstRenderSelectionLine[1], cell>>
                        /\ selectedCells' = lineCells
                   ELSE UNCHANGED <<selectionLine, selectedCells>>
  /\ op' = "move"
  /\ UNCHANGED <<pc, screenFoundWords, foundWordPositions, dialog, lastRet>>
  /\ PuzzleGridFrame

(* lastRet is the word onWordSelect was called with, NoCall when it was not
   called. *)
onPanResponderRelease ==
  /\ impl = "lib"
  /\ pc = "gesture"
  /\ LET word == ReleaseWord(panResponder.grid, selectedCells)
     IN  IF Len(selectedCells) > 0 /\ Len(word) >= 2
         THEN /\ handleWordSelect(word, panResponder, <<>>)
              /\ lastRet' = word
         ELSE /\ UNCHANGED <<screenFoundWords, foundWordPositions, dialog>>
              /\ lastRet' = NoCall
  /\ selectionLine' = NoLine
  /\ selectedCells' = <<>>
  /\ pc' = "shown"
  /\ op' = "release"
  /\ UNCHANGED touch
  /\ PuzzleGridFrame

onPanResponderTerminate ==
  /\ impl = "lib"
  /\ pc = "gesture"
  /\ selectionLine' = NoLine
  /\ selectedCells' = <<>>
  /\ pc' = "shown"
  /\ op' = "terminate"
  /\ UNCHANGED <<touch, screenFoundWords, foundWordPositions, dialog, lastRet>>
  /\ PuzzleGridFrame

----------------------------------------------------------------------------
(* Specifications *)

Start(inputs) ==
  /\ \E in \in inputs :
       /\ impl = in.impl
       /\ size = in.size
       /\ words = in.words
  /\ sortedWords = IF impl = "lib" THEN SortByLength(words) ELSE <<>>
  /\ thisWords = IF impl = "game"
                 THEN [k \in 1..Len(words) |-> toUpperCase(words[k])]
                 ELSE <<>>
  /\ grid = EmptyGrid(size)
  /\ placedWords = <<>>
  /\ wordPositions = <<>>
  /\ foundWords = {}
  /\ i = 0
  /\ attempts = 0
  /\ pc = IF Len(words) > 0 THEN "place" ELSE "fill"
  /\ op = "new"
  /\ selectedCells = <<>>
  /\ lastRet = NoCall
  /\ prevFound = {}
  /\ puzzle = NoPuzzle
  /\ screenFoundWords = <<>>
  /\ foundWordPositions = {}
  /\ panResponder = NoPuzzle
  /\ dialog = FALSE
  /\ isSelecting = FALSE
  /\ timers = 0
  /\ touch = NoTouch
  /\ selectionLine = NoLine

(* Generation, by either generator. *)
Init == Start([impl : {"lib", "game"}, size : 1..MaxSize, words : WordLists])

Next ==
  \/ LibAttempt
  \/ LibFill
  \/ GameAttempt
  \/ GameFallback
  \/ GameFill

Spec == Init /\ [][Next]_vars

(* Generation runs to completion: both generators are straight-line
   synchronous code, so a step that can be taken is taken. *)
FairSpec == Spec /\ WF_vars(Next)

(* generatePuzzle with one word, up to its placement. *)
InitWalk == Start(WalkInputs)

NextWalk == LibAttempt

SpecWalk == InitWalk /\ [][NextWalk]_vars

(* A WordSearchGame: its construction, then its public operations. *)
InitGame == Start(GameInputs)

NextGame ==
  \/ GameAttempt
  \/ GameFallback
  \/ GameFill
  \/ SelectCell
  \/ CheckSelectionCall
  \/ MarkWordAsFoundCall

SpecGame == InitGame /\ [][NextGame]_vars

(* A GameScreen: the mount effect generates the first puzzle; then Reset,
   New Game and completed drags, one handler at a time. *)
InitScreen == Start(ScreenInputs)

NextScreen ==
  \/ LibAttempt
  \/ LibFill
  \/ SetPuzzle
  \/ handleReset
  \/ NewGame
  \/ PuzzleGridRelease

SpecScreen == InitScreen /\ [][NextScreen]_vars

(* A GameScreen from its mount to the drags on its first puzzle. *)
InitFirstPuzzle == Start(FirstPuzzleInputs)

NextFirstPuzzle ==
  \/ LibAttempt
  \/ LibFill
  \/ SetPuzzle
  \/ PuzzleGridRelease

SpecFirstPuzzle == InitFirstPuzzle /\ [][NextFirstPuzzle]_vars

(* A GameScreen from its mount through the gestures on the PuzzleGrid of
   its first puzzle. *)
InitPuzzleGrid == Start(ScreenInputs)

NextPuzzleGrid ==
  \/ LibAttempt
  \/ LibFill
  \/ SetPuzzle
  \/ onPanResponderGrant
  \/ onPanResponderMove
  \/ onPanResponderRelease
  \/ onPanResponderTerminate

SpecPuzzleGrid == InitPuzzleGrid /\ [][NextPuzzleGrid]_vars

(* A Grid over a WordSearchGame(['abc'], 3) as the constructor can have
   built it: the word on one of the lines of GridPlacements, every other
   cell filled with Z. *)
InitGrid ==
  /\ impl \in {"Grid", "Grid2"}
  /\ size = 3
  /\ words = << <<"a", "b", "c">> >>
  /\ sortedWords = <<>>
  /\ thisWords = [k \in 1..Len(words) |-> toUpperCase(words[k])]
  /\ \E placement \in GridPlacements :
       LET direction == placement[1]
           start == placement[2]
       IN  /\ canPlaceWord(thisWords[1], start[1], start[2], direction,
                           EmptyGrid(size), size) = "true"
           /\ start \in getRandomPosition(direction, Len(thisWords[1]), size)
           /\ grid = fillRandomLetters(
                       insertWord(thisWords[1], start[1], start[2], direction,
                                  EmptyGrid(size)),
                       [cell \in Cells(size) |-> "Z"])
           /\ wordPositions =
                << [word |-> thisWords[1],
                    startRow |-> start[1], startCol |-> start[2],
                    direction |-> direction,
                    positions |-> insertWordPositions(thisWords[1], start[1],
                                                      start[2], direction)] >>
  /\ placedWords = <<>>
  /\ foundWords = {}
  /\ i = 1
  /\ attempts = 0
  /\ pc = "done"
  /\ op = "new"
  /\ selectedCells = <<>>
  /\ lastRet = NoCall
  /\ prevFound = {}
  /\ puzzle = NoPuzzle
  /\ screenFoundWords = <<>>
  /\ foundWordPositions = {}
  /\ panResponder = NoPuzzle
  /\ dialog = FALSE
  /\ isSelecting = FALSE
  /\ timers = 0
  /\ touch = NoTouch
  /\ selectionLine = NoLine

NextGrid ==
  \/ GridGrant
  \/ GridMove
  \/ GridRelease
  \/ GridTerminate
  \/ GridTimer

SpecGrid == InitGrid /\ [][NextGrid]_vars

----------------------------------------------------------------------------
(* Properties *)

CellSet(cells) == {cells[k] : k \in 1..Len(cells)}

(* The letters read from the grid along a list of cells of the grid. *)
ReadCells(g, cells) == [k \in 1..Len(cells) |-> g[cells[k]]]

IsWord(ret) == ret \notin {NoCall, Null, Threw}

SharedCells(a, b) == CellSet(a.positions) \cap CellSet(b.positions)

(* Entry k of wordPositions is not found (with respect to found) and no
   earlier entry that is not found has the same footprint. *)
FirstUnfoundOnFootprint(k, found) ==
  /\ wordPositions[k].word \notin found
  /\ \A j \in 1..(k - 1) :
       \/ wordPositions[j].word \in found
       \/ CellSet(wordPositions[j].positions)
            # CellSet(wordPositions[k].positions)

(* Some entry that is not found has exactly the cells of `cells`. *)
UnfoundOnFootprint(cells, found) ==
  \E k \in 1..Len(wordPositions) :
    /\ wordPositions[k].word \notin found
    /\ CellSet(wordPositions[k].positions) = CellSet(cells)

(* C1: when generation has completed, the grid has size x size cells and
   every cell holds one uppercase letter A-Z; no cell is left empty. *)
C1_GridFullyLettered ==
  pc = "done" =>
    /\ DOMAIN grid = Cells(size)
    /\ \A cell \in DOMAIN grid : grid[cell] \in letters

(* generatePuzzle returned a grid that holds a placed word next to filler
   letters, one word of the list having been skipped. *)
C1_Witness ==
  /\ impl = "lib"
  /\ pc = "done"
  /\ placedWords # <<>>
  /\ Len(placedWords) < Len(words)
  /\ \E cell \in DOMAIN grid : grid[cell] = "Z"

(* C2: for every entry of generatePuzzle's placedWords, reading the grid at
   its positions in recorded order yields its word, whatever was placed or
   filled afterwards. *)
C2_PlacedWordsReadBack ==
  impl = "lib" =>
    \A k \in 1..Len(placedWords) :
      ReadCells(grid, placedWords[k].positions) = placedWords[k].word

(* generatePuzzle returned two different words that cross, the later one
   written against its reading direction, after the filler pass. *)
C2_Witness ==
  /\ impl = "lib"
  /\ pc = "done"
  /\ Len(placedWords) = 2
  /\ placedWords[1].word # placedWords[2].word
  /\ Cardinality(SharedCells(placedWords[1], placedWords[2])) = 1
  /\ Len(placedWords[2].positions) = 2
  /\ placedWords[2].positions[1][1] > placedWords[2].positions[2][1]
  /\ \E cell \in DOMAIN grid : grid[cell] = "Z"

(* C3: for every entry of WordSearchGame.wordPositions, reading the grid at
   its positions in recorded order yields its word, the entries recorded by
   placeWord's fallback included. *)
C3_WordPositionsReadBack ==
  impl = "game" =>
    \A k \in 1..Len(wordPositions) :
      ReadCells(grid, wordPositions[k].positions) = wordPositions[k].word

(* C4: during generation a cell that holds a letter never changes again. *)
C4_LettersNeverChange ==
  [][\A cell \in DOMAIN grid :
       grid[cell] # "" => grid'[cell] = grid[cell]]_vars

(* A WordSearchGame was built with two words that cross in one cell, and
   the filler pass has run. *)
C4_Witness ==
  /\ impl = "game"
  /\ pc = "done"
  /\ Len(wordPositions) = 2
  /\ Cardinality(SharedCells(wordPositions[1], wordPositions[2])) = 1
  /\ \E cell \in DOMAIN grid : grid[cell] = "Z"

(* The call that led to this state was checkSelection with the positions of
   entry k, forward or exactly reversed, entry k being then the first entry
   on its footprint that was not found. *)
SelectedEntry(k) ==
  /\ op = "checkSelection"
  /\ FirstUnfoundOnFootprint(k, prevFound)
  /\ \/ selectedCells = wordPositions[k].positions
     \/ selectedCells = reverse(wordPositions[k].positions)

ReturnedAndMarked(k) ==
  /\ lastRet = wordPositions[k].word
  /\ foundWords = prevFound \cup {wordPositions[k].word}

(* C5, as claimed: for every placed word that is not found and whose
   footprint is not that of an earlier unfound word, checkSelection with
   its positions, forward or reversed, returns the word and marks it. *)
C5_AsClaimed ==
  \A k \in 1..Len(wordPositions) : SelectedEntry(k) => ReturnedAndMarked(k)

(* C5, amended: the same for every such word of at least two letters. *)
C5_ForwardOrReversedMatches ==
  \A k \in 1..Len(wordPositions) :
    (SelectedEntry(k) /\ Len(wordPositions[k].word) >= 2)
      => ReturnedAndMarked(k)

(* A word was matched by its cells in reversed order. *)
C5_Witness ==
  \E k \in 1..Len(wordPositions) :
    /\ SelectedEntry(k)
    /\ Len(wordPositions[k].word) >= 2
    /\ selectedCells = reverse(wordPositions[k].positions)
    /\ lastRet = wordPositions[k].word
    /\ lastRet \notin prevFound

(* C6: checkSelection returns a word only when the selected cells are
   exactly the cells of an entry of that word that was not found, and it
   returns null when no unfound entry has exactly the selected cells. *)
C6_ExactFootprintOnly ==
  op = "checkSelection" =>
    /\ IsWord(lastRet) =>
         \E k \in 1..Len(wordPositions) :
           /\ wordPositions[k].word = lastRet
           /\ wordPositions[k].word \notin prevFound
           /\ CellSet(wordPositions[k].positions) = CellSet(selectedCells)
    /\ ~UnfoundOnFootprint(selectedCells, prevFound) => lastRet = Null

(* A selection that covers an unfound word's cells and one more cell of the
   grid returned null. *)
C6_Witness ==
  /\ op = "checkSelection"
  /\ lastRet = Null
  /\ \A k \in 1..Len(selectedCells) : InBounds(selectedCells[k], size)
  /\ \E k \in 1..Len(wordPositions) :
       /\ wordPositions[k].word \notin prevFound
       /\ CellSet(wordPositions[k].positions) \subseteq CellSet(selectedCells)
       /\ CellSet(wordPositions[k].positions) # CellSet(selectedCells)

(* C7: checkSelection with 0 or 1 cells returns null and leaves foundWords
   unchanged. *)
C7_ShortSelectionRejected ==
  (op = "checkSelection" /\ Len(selectedCells) < 2) =>
    /\ lastRet = Null
    /\ foundWords = prevFound

(* The one cell of an unfound one-letter word was selected and checked. *)
C7_Witness ==
  /\ op = "checkSelection"
  /\ Len(selectedCells) = 1
  /\ \E k \in 1..Len(wordPositions) :
       /\ wordPositions[k].word \notin prevFound
       /\ wordPositions[k].positions = selectedCells
  /\ lastRet = Null

(* checkSelection never returns a word that was already found, and the
   cells of a found word return null unless an unfound word has them. *)
NeverReturnedAgain ==
  op = "checkSelection" =>
    /\ lastRet \notin prevFound
    /\ \A k \in 1..Len(wordPositions) :
         (/\ wordPositions[k].word \in prevFound
          /\ CellSet(selectedCells) = CellSet(wordPositions[k].positions)
          /\ ~UnfoundOnFootprint(selectedCells, prevFound))
           => lastRet = Null

(* Selecting the cells of entry k now returns the first unfound entry on
   that footprint: entry k itself, or an entry before it after which it is
   entry k's turn. *)
StillMatchable(k) ==
  \E j \in 1..k :
    /\ FirstUnfoundOnFootprint(j, foundWords)
    /\ CellSet(wordPositions[j].positions)
         = CellSet(wordPositions[k].positions)
    /\ checkSelectionResult(wordPositions[k].positions, wordPositions, grid,
                            size, foundWords) = wordPositions[j].word

GameBuilt == impl = "game" /\ pc = "done"

(* C8, as claimed: a found word is never returned again, and once a word is
   found every placed word that is not found can still be matched by
   selecting its own cells. *)
C8_AsClaimed ==
  /\ NeverReturnedAgain
  /\ (GameBuilt /\ foundWords # {}) =>
       \A k \in 1..Len(wordPositions) :
         wordPositions[k].word \notin foundWords => StillMatchable(k)

(* C8, amended: the same for the unfound words of at least two letters. *)
C8_FoundSkippedOthersMatchable ==
  /\ NeverReturnedAgain
  /\ (GameBuilt /\ foundWords # {}) =>
       \A k \in 1..Len(wordPositions) :
         (/\ wordPositions[k].word \notin foundWords
          /\ Len(wordPositions[k].word) >= 2) => StillMatchable(k)

(* After one word was found, a word sharing a cell with it was matched. *)
C8_Witness ==
  /\ op = "checkSelection"
  /\ IsWord(lastRet)
  /\ \E k, f \in 1..Len(wordPositions) :
       /\ wordPositions[f].word \in prevFound
       /\ wordPositions[k].word = lastRet
       /\ CellSet(wordPositions[k].positions) = CellSet(selectedCells)
       /\ Cardinality(SharedCells(wordPositions[k], wordPositions[f])) = 1

(* C9: a checkSelection call changes nothing but foundWords; foundWords is
   unchanged when it returns null and gains exactly the returned word
   otherwise. *)
C9_OnlyFoundWordsChanges ==
  [][op' = "checkSelection" =>
       /\ grid' = grid
       /\ wordPositions' = wordPositions
       /\ thisWords' = thisWords
       /\ size' = size
       /\ lastRet' = Null => foundWords' = foundWords
       /\ lastRet' # Null =>
            /\ foundWords' = foundWords \cup {lastRet'}
            /\ Cardinality(foundWords' \ foundWords) <= 1]_vars

(* A call matched a word while another unfound word has the same cells:
   only the returned word was marked. *)
C9_Witness ==
  /\ op = "checkSelection"
  /\ IsWord(lastRet)
  /\ foundWords = prevFound \cup {lastRet}
  /\ lastRet \notin prevFound
  /\ \E k \in 1..Len(wordPositions) :
       /\ wordPositions[k].word \notin foundWords
       /\ CellSet(wordPositions[k].positions) = CellSet(selectedCells)

HasOutOfRangeCell(cells) ==
  \E k \in 1..Len(cells) : ~InBounds(cells[k], size)

(* C10: checkSelection never raises, and it returns null for a selection
   of two or more cells of which one lies outside the grid. *)
C10_OutOfRangeRejected ==
  op = "checkSelection" =>
    /\ lastRet # Threw
    /\ (Len(selectedCells) >= 2 /\ HasOutOfRangeCell(selectedCells))
         => (lastRet = Null /\ foundWords = prevFound)

(* An unfound word's cells followed by a cell outside the grid were
   selected and checked. *)
C10_Witness ==
  /\ op = "checkSelection"
  /\ lastRet = Null
  /\ HasOutOfRangeCell(selectedCells)
  /\ \E k \in 1..Len(wordPositions) :
       /\ wordPositions[k].word \notin prevFound
       /\ Len(wordPositions[k].word) >= 2
       /\ SubSeq(selectedCells, 1, Len(selectedCells) - 1)
            = wordPositions[k].positions

HasDuplicateCell(cells) ==
  \E a, b \in 1..Len(cells) : a # b /\ cells[a] = cells[b]

(* C11: checkSelection returns null and marks nothing for a selection in
   which some cell occurs twice, also when its distinct cells are exactly
   the cells of an unfound word. *)
C11_DuplicateCellsRejected ==
  (op = "checkSelection" /\ HasDuplicateCell(selectedCells)) =>
    /\ lastRet = Null
    /\ foundWords = prevFound

(* A selection of three cells, one of them twice, whose distinct cells are
   the two cells of an unfound word, was checked. *)
C11_Witness ==
  /\ op = "checkSelection"
  /\ Len(selectedCells) = 3
  /\ HasDuplicateCell(selectedCells)
  /\ UnfoundOnFootprint(selectedCells, prevFound)
  /\ lastRet = Null

(* C12: generatePuzzle never places a word longer than size; while it is
   placing, the next attempt is always possible (nothing raises, nothing
   blocks), and when it has returned every word was processed and the grid
   is completely filled. *)
C12_LongWordNeverPlaced ==
  impl = "lib" =>
    /\ \A k \in 1..Len(placedWords) : Len(placedWords[k].word) <= size
    /\ pc \in {"place", "fill", "done"}
    /\ pc = "place" => (i < Len(sortedWords) /\ attempts < maxAttempts)
    /\ pc \in {"fill", "done"} => i = Len(sortedWords)
    /\ pc = "done" => \A cell \in Cells(size) : grid[cell] \in letters

(* generatePuzzle returned after skipping a word two letters longer than
   size (its range size - len + 1 is negative) and placing the other word. *)
C12_Witness ==
  /\ impl = "lib"
  /\ pc = "done"
  /\ \E k \in 1..Len(sortedWords) : size - Len(sortedWords[k]) + 1 < 0
  /\ Len(placedWords) = 1
  /\ Len(sortedWords) = 2

(* C13: constructing a WordSearchGame never raises. *)
C13_ConstructorNeverRaises ==
  impl = "game" => pc # "threw"

(* C14: generation terminates.  The attempts counter of a word never
   exceeds 100; a word whose attempts are used up (in placeWord: after the
   one reversed try) is left for the next word; and every run ends, after
   the filler pass or, for the constructor only, by raising. *)
C14_GenerationTerminates ==
  /\ [](attempts <= maxAttempts)
  /\ [][(pc = "place" /\ pc' # "threw" /\ attempts' = 0) => i' = i + 1]_vars
  /\ [][(pc = "place" /\ pc' # "threw" /\ attempts' # 0)
          => (i' = i /\ attempts' = attempts + 1)]_vars
  /\ [][(pc = "place" /\ pc' = "fill") => i' = Len(words)]_vars
  /\ <>(pc = "done" \/ (impl = "game" /\ pc = "threw"))

(* The constructor returned after giving a word up: its 100 attempts and
   the reversed try all failed without raising. *)
C14_Witness ==
  /\ impl = "game"
  /\ pc = "done"
  /\ Len(wordPositions) < Len(thisWords)

PlacedTexts == {wordPositions[k].word : k \in 1..Len(wordPositions)}

(* C16: after any sequence of public operations foundWords holds placed
   words only, and it changes only when checkSelection returns a word. *)
C16_FoundWordsOnlyByMatch ==
  /\ [](GameBuilt => foundWords \subseteq PlacedTexts)
  /\ [][foundWords' # foundWords
          => (op' = "checkSelection" /\ IsWord(lastRet'))]_vars

(* C18: the color of the k-th entry of placedWords (k counted from 0) is
   COLORS[k mod 6], also after words of the sorted list were skipped. *)
C18_ColorByPlacementOrder ==
  impl = "lib" =>
    \A k \in 1..Len(placedWords) :
      placedWords[k].color = COLORS[((k - 1) % Len(COLORS)) + 1]

(* The positions are as many as the word has letters, all inside the grid
   and pairwise distinct. *)
PositionsWellFormed(entry) ==
  /\ Len(entry.positions) = Len(entry.word)
  /\ \A k \in 1..Len(entry.positions) : InBounds(entry.positions[k], size)
  /\ \A a, b \in 1..Len(entry.positions) :
       a # b => entry.positions[a] # entry.positions[b]

(* C19: every entry of placedWords (generatePuzzle) and of wordPositions
   (WordSearchGame) has well-formed positions. *)
C19_PositionsDistinctInBounds ==
  /\ \A k \in 1..Len(placedWords) : PositionsWellFormed(placedWords[k])
  /\ \A k \in 1..Len(wordPositions) : PositionsWellFormed(wordPositions[k])

(* The constructor placed a two-letter word on a horizontal line and one
   on the anti-diagonal. *)
C19_Witness ==
  /\ impl = "game"
  /\ pc = "done"
  /\ Len(wordPositions) = 2
  /\ wordPositions[1].direction = "horizontal"
  /\ wordPositions[2].direction = "diagonal-backward"
  /\ Len(wordPositions[2].word) = 2

(* C15: re-invoking generatePuzzle with the same word list and size
   reproduces the identical grid and placedWords: a regeneration of the
   GameScreen, which passes the same theme.words and size every time (the
   function takes no seed), sets the puzzle it had before. *)
C15_SameResultOnReinvoke ==
  [][(op' = "setPuzzle" /\ puzzle # NoPuzzle) => puzzle' = puzzle]_vars

IsPrefix(a, b) == Len(a) <= Len(b) /\ SubSeq(b, 1, Len(a)) = a

NoDuplicates(arr) ==
  \A a, b \in 1..Len(arr) : a # b => arr[a] # arr[b]

(* C17: in GameScreen, a regeneration sets the puzzle to the grid and the
   placedWords of one generatePuzzle call and empties foundWords and
   foundWordPositions in the same step; every other step keeps the puzzle,
   only appends to foundWords, and never leaves a word in it twice. *)
C17_FoundGrowsUntilRegenerated ==
  [][/\ op' = "setPuzzle" =>
          /\ puzzle' = [grid |-> grid, placedWords |-> placedWords]
          /\ screenFoundWords' = <<>>
          /\ foundWordPositions' = {}
     /\ op' # "setPuzzle" =>
          /\ puzzle' = puzzle
          /\ IsPrefix(screenFoundWords, screenFoundWords')
          /\ NoDuplicates(screenFoundWords')
          /\ foundWordPositions \subseteq foundWordPositions']_vars

(* A regeneration has just replaced the puzzle by a different one and
   emptied the found list, after every word had been found (the dialog is
   scheduled). *)
C17_Witness ==
  /\ op = "setPuzzle"
  /\ dialog
  /\ puzzle # panResponder
  /\ screenFoundWords = <<>>
  /\ foundWordPositions = {}

(* C20: a completed drag adds a word to foundWords, and its positions to
   foundWordPositions, only if the cells of the drag are exactly the
   recorded positions of that placed word. *)
C20_FoundOnlyOnExactFootprint ==
  [][(op' = "release" /\ screenFoundWords' # screenFoundWords) =>
       \E k \in 1..Len(puzzle.placedWords) :
         /\ puzzle.placedWords[k].word
              = screenFoundWords'[Len(screenFoundWords')]
         /\ CellSet(puzzle.placedWords[k].positions) = CellSet(selectedCells')
         /\ KeySet(puzzle.placedWords[k].positions)
              \subseteq foundWordPositions']_vars

(* The entry a placement step has added, if any. *)
Placed(before, after) == Len(after) = Len(before) + 1

NewEntryWritten(entry) ==
  /\ \A k \in 1..Len(entry.positions) : grid'[entry.positions[k]] \in letters
  /\ \A cell \in DOMAIN grid :
       cell \notin CellSet(entry.positions) => grid'[cell] = grid[cell]

(* C21: a placement step that does not place the word (a failed attempt,
   the last one of an exhausted word included) changes neither the grid
   nor the list of placed words; a step that places it writes every cell of
   the recorded footprint and no other cell, so no partly written word is
   ever in the grid. *)
C21_FailedAttemptChangesNothing ==
  [][op' \in {"attempt", "fallback"} =>
       /\ DOMAIN grid' = DOMAIN grid
       /\ IF Placed(placedWords, placedWords')
            THEN /\ SubSeq(placedWords', 1, Len(placedWords)) = placedWords
                 /\ wordPositions' = wordPositions
                 /\ NewEntryWritten(placedWords'[Len(placedWords')])
          ELSE IF Placed(wordPositions, wordPositions')
            THEN /\ SubSeq(wordPositions', 1, Len(wordPositions))
                      = wordPositions
                 /\ placedWords' = placedWords
                 /\ NewEntryWritten(wordPositions'[Len(wordPositions')])
          ELSE /\ grid' = grid
               /\ placedWords' = placedWords
               /\ wordPositions' = wordPositions]_vars

(* generatePuzzle placed its first word and gave the second one up after
   its last attempt: only the first word is in the grid. *)
C21_Witness ==
  /\ impl = "lib"
  /\ op = "attempt"
  /\ pc = "fill"
  /\ i = 2
  /\ Len(placedWords) = 1
  /\ Len(sortedWords[2]) <= size
  /\ Cardinality(DOMAIN grid \ EmptyCells(grid)) = Len(placedWords[1].word)

(* Entry k qualifies for the selection of the last call: its word was not
   found, its cells are the selected cells, and the letters at the selected
   cells in drag order are the letters at its positions, their reverse, or
   its word. *)
Qualifies(k) ==
  LET entry == wordPositions[k]
  IN  /\ entry.word \notin prevFound
      /\ CellSet(entry.positions) = CellSet(selectedCells)
      /\ LET selectedWord == ReadCells(grid, selectedCells)
             wordLetters == ReadCells(grid, entry.positions)
         IN  \/ selectedWord = wordLetters
             \/ selectedWord = reverse(wordLetters)
             \/ selectedWord = entry.word

FirstQualifying ==
  CHOOSE k \in 1..Len(wordPositions) :
    Qualifies(k) /\ \A j \in 1..(k - 1) : ~Qualifies(j)

ReturnsFirstQualifying ==
  IF \E k \in 1..Len(wordPositions) : Qualifies(k)
  THEN lastRet = wordPositions[FirstQualifying].word
  ELSE lastRet = Null

(* C22, as claimed: checkSelection returns the word of the first entry that
   qualifies, and null when no entry qualifies. *)
C22_AsClaimed ==
  op = "checkSelection" => ReturnsFirstQualifying

(* C22, amended: the same for a selection of two or more cells; a
   selection of fewer cells returns null. *)
C22_FirstQualifyingEntry ==
  op = "checkSelection" =>
    IF Len(selectedCells) >= 2 THEN ReturnsFirstQualifying
    ELSE lastRet = Null

(* Two entries qualified for the selection and the earlier one was
   returned. *)
C22_Witness ==
  /\ op = "checkSelection"
  /\ Len(selectedCells) >= 2
  /\ Len(wordPositions) = 2
  /\ Qualifies(1)
  /\ Qualifies(2)
  /\ wordPositions[1].word # wordPositions[2].word
  /\ lastRet = wordPositions[1].word

(* The unit step of each direction of generatePuzzle. *)
Delta(direction) ==
  CASE direction = "horizontal" -> <<0, 1>>
    [] direction = "horizontal-reverse" -> <<0, 0 - 1>>
    [] direction = "vertical" -> <<1, 0>>
    [] direction = "vertical-reverse" -> <<0 - 1, 0>>
    [] direction = "diagonal-forward" -> <<1, 1>>
    [] direction = "diagonal-forward-reverse" -> <<0 - 1, 0 - 1>>
    [] direction = "diagonal-backward" -> <<1, 0 - 1>>
    [] OTHER -> <<0 - 1, 1>>

StepsBy(cells, delta) ==
  \A k \in 1..(Len(cells) - 1) :
    /\ cells[k + 1][1] = cells[k][1] + delta[1]
    /\ cells[k + 1][2] = cells[k][2] + delta[2]

(* C23: for a word of 1..size letters, every start cell the sampler can
   draw, in each of the eight directions, gives a walk that stays inside
   the grid and steps by the direction's unit delta; the recorded positions
   of a placed word are such a walk. *)
C23_WalkStaysInGrid ==
  /\ (pc = "place" /\ Len(sortedWords[i + 1]) <= size) =>
       \A direction \in directions :
         \A start \in LibStartCells(direction, Len(sortedWords[i + 1]), size) :
           LET walk == LibWalk(direction, start[1], start[2],
                               Len(sortedWords[i + 1]))
           IN  /\ \A k \in 1..Len(walk) : InBounds(walk[k], size)
               /\ StepsBy(walk, Delta(direction))
  /\ \A k \in 1..Len(placedWords) :
       /\ \A j \in 1..Len(placedWords[k].positions) :
            InBounds(placedWords[k].positions[j], size)
       /\ \E direction \in directions :
            StepsBy(placedWords[k].positions, Delta(direction))

(* A three-letter word was placed on the 4 x 4 grid along
   diagonal-backward-reverse, from a start the sampler drew away from the
   first row and from the last column's default. *)
C23_Witness ==
  /\ size = 4
  /\ Len(placedWords) = 1
  /\ placedWords[1].positions = << <<3, 1>>, <<2, 2>>, <<1, 3>> >>

(* C24: generatePuzzle processes the uppercased words in non-increasing
   length order, so the lengths along placedWords do not increase, and
   placedWords is a subsequence of the uppercased sorted list; the caller's
   array is the same before and after. *)
C24_LongestFirst ==
  /\ [][words' = words]_vars
  /\ [](impl = "lib" =>
    /\ \A k \in 1..(Len(sortedWords) - 1) :
         Len(sortedWords[k]) >= Len(sortedWords[k + 1])
    /\ \A k \in 1..(Len(placedWords) - 1) :
         Len(placedWords[k].word) >= Len(placedWords[k + 1].word)
    /\ \E pick \in [1..Len(placedWords) -> 1..Len(sortedWords)] :
         /\ \A k \in 1..Len(placedWords) :
              /\ placedWords[k].word = toUpperCase(sortedWords[pick[k]])
              /\ pick[k] <= i
         /\ \A k \in 1..(Len(placedWords) - 1) : pick[k] < pick[k + 1])

(* The caller passed the shorter word first; both were placed, the longer
   one first, and the caller's array still has the shorter word first. *)
C24_Witness ==
  /\ impl = "lib"
  /\ pc = "done"
  /\ Len(words) = 2
  /\ Len(words[1]) < Len(words[2])
  /\ Len(placedWords) = 2
  /\ placedWords[1].word = toUpperCase(words[2])
  /\ placedWords[2].word = toUpperCase(words[1])

(* C25: a completed drag is read from the grid of the current puzzle and
   matched against its placedWords and the current foundWords: the step is
   the one handleWordSelect of the current render would make on the letters
   of the current grid. *)
C25_HandlersUseCurrentPuzzle ==
  [][op' = "release" =>
       LET word == ReleaseWord(puzzle.grid, selectedCells')
           toCheck == wordsToCheck(word)
           hits == {k \in 1..Len(toCheck) :
                      Accepts(toCheck[k], puzzle, words, screenFoundWords)}
       IN  IF Len(word) < 2 \/ hits = {}
           THEN /\ screenFoundWords' = screenFoundWords
                /\ foundWordPositions' = foundWordPositions
           ELSE LET w == toCheck[CHOOSE k \in hits : \A m \in hits : k <= m]
                IN  /\ screenFoundWords' = Append(screenFoundWords, w)
                    /\ foundWordPositions' = foundWordPositions \cup
                         KeySet(FindPlacedWord(puzzle.placedWords, w).positions)
    ]_vars

AllPlacedFound(p, found) ==
  \A k \in 1..Len(p.placedWords) : Includes(found, p.placedWords[k].word)

(* C26: the dialog is scheduled by the step that makes every word of
   puzzle.placedWords a found word, and by no other step. *)
C26_DialogWhenAllPlacedFound ==
  [][op' = "release" =>
       ((screenFoundWords' # screenFoundWords
           /\ AllPlacedFound(puzzle, screenFoundWords'))
        <=> (dialog' /\ ~dialog))]_vars

(* C27: in both versions of the Grid the accumulated selection never holds
   a cell twice, holds only cells of the grid, and each of its cells is
   adjacent (diagonals included) to the one before it. *)
C27_SelectionIsAPath ==
  impl \in {"Grid", "Grid2"} =>
    /\ \A k, m \in 1..Len(selectedCells) :
         selectedCells[k] = selectedCells[m] => k = m
    /\ \A k \in 1..Len(selectedCells) : InBounds(selectedCells[k], size)
    /\ \A k \in 2..Len(selectedCells) :
         isAdjacent(selectedCells[k], selectedCells[k - 1])

(* The positions of the placed word, up to the k-th. *)
WordPrefix(k) == SubSeq(wordPositions[1].positions, 1, k)

(* C28: the Grid's move handler can accumulate a placed word's footprint:
   while the selection is the first k cells of the word, a move over the
   word's next cell makes it the first k+1 cells. *)
C28_MoveAccumulatesFootprint ==
  [][\A k \in 1..(Len(wordPositions[1].positions) - 1) :
       (/\ impl \in {"Grid", "Grid2"}
        /\ op' = "move"
        /\ isSelecting
        /\ selectedCells = WordPrefix(k)
        /\ touch' = wordPositions[1].positions[k + 1])
       => selectedCells' = WordPrefix(k + 1)]_vars

(* In the first version of the Grid a word of three cells on a diagonal is
   never found, whatever the gestures. *)
GridDiagonalWordNeverFound ==
  (/\ impl = "Grid"
   /\ wordPositions[1].direction \in {"diagonal-forward", "diagonal-backward"})
  => foundWords = {}

(* C29: a clearing timer that runs while a later gesture is in progress
   leaves the cells of that gesture in the selection. *)
C29_TimerKeepsLaterDrag ==
  [][(op' = "timer" /\ GestureActive /\ isSelecting)
       => selectedCells' = selectedCells]_vars

(* C30: a drag that starts on cell s and is released over cell e, with s
   and e on a common row, column or diagonal and two or more cells from s
   to e, reports to onWordSelect, once, the letters of the cells of the
   segment in order from s to e; a drag that never left its start cell
   reports nothing. *)
C30_DragReportsSegment ==
  [][(/\ op' = "release"
      /\ pc = "gesture"
      /\ selectionLine # NoLine
      /\ touch # NoTouch)
     => LET segment == getCellsInLine(selectionLine[1], touch, size)
        IN  /\ Len(segment) >= 2 => lastRet' = ReleaseWord(puzzle.grid, segment)
            /\ touch = selectionLine[1] => lastRet' = NoCall]_vars

====
